---- MODULE Spec2Model ----
(***************************************************************************)
(* The hourly partition pipelines (customers, products, transactions) and  *)
(* the erasure subsystem of src/flows, as a state machine.                  *)
(*                                                                         *)
(* A run is single-threaded: one partition, one dataset kind at a time.    *)
(* The file system (raw, processed and archive trees) and the relational   *)
(* store are the shared state.  Store and file-system operations can fail. *)
(***************************************************************************)
EXTENDS Integers, Sequences, FiniteSets, TLC

(* ------------------------------ bounds --------------------------------- *)
MaxKey == 2
MaxDate == 1
MaxHour == 2
MaxBatch == 2
MaxRuns == 2
MaxEntryRuns == 3

Keys == 1..MaxKey
Dates == 1..MaxDate
Hours == 1..MaxHour

(* absent dictionary key (dict.get -> None, dict[k] -> KeyError) *)
Missing == "<missing>"

Kinds == {"customers", "products", "transactions"}
GZ == ".json.gz"
JSON == ".json"
Exts == {GZ, JSON}

(* ------------------------- sequence helpers ---------------------------- *)
Range(s) == {s[i] : i \in 1..Len(s)}

SeqsUpTo(S, n) == UNION {[1..k -> S] : k \in 0..n}

RECURSIVE SelectIdx(_, _, _)
SelectIdx(s, keep, i) ==
    IF i > Len(s) THEN <<>>
    ELSE (IF s[i] \in keep THEN <<s[i]>> ELSE <<>>) \o SelectIdx(s, keep, i + 1)

(* the number of rows of s that are among matching *)
Count(s, matching) == Cardinality({i \in 1..Len(s) : s[i] \in matching})

(* ------------------- partition names and conversions ------------------- *)
(* A folder name is a pair <<prefix, value>>: "date=2024-01-0d" is         *)
(* <<"date=", d>>, "hour=0h" is <<"hour=", h>>; str(value) has prefix "".  *)
DateDir(d) == <<"date=", d>>
HourDir(h) == <<"hour=", h>>

extract_actual_date(date_str) == date_str[2]
extract_actual_hour(hour_str) == hour_str[2]
format_date_for_file_system(actual_date) == <<"date=", actual_date>>
format_hour_for_file_system(actual_hour) == <<"hour=", actual_hour>>
PyStr(v) == <<"", v>>

Parts == {<<DateDir(d), HourDir(h)>> : d \in Dates, h \in Hours}

PartLess(p, q) ==
    \/ p[1][2] < q[1][2]
    \/ p[1][2] = q[1][2] /\ p[2][2] < q[2][2]

(* the folders in descending order *)
RECURSIVE ReverseSortedParts(_)
ReverseSortedParts(S) ==
    IF S = {} THEN <<>>
    ELSE LET m == CHOOSE p \in S : \A q \in S \ {p} : PartLess(q, p)
         IN <<m>> \o ReverseSortedParts(S \ {m})

(* os.listdir + sort(), date folders then hour folders *)
RECURSIVE SortedParts(_)
SortedParts(S) ==
    IF S = {} THEN <<>>
    ELSE LET m == CHOOSE p \in S : \A q \in S \ {p} : PartLess(p, q)
         IN <<m>> \o SortedParts(S \ {m})

(* str.startswith on a file stem, for the literals the pipelines use *)
StartsWith(stem, literal) ==
    \/ stem = literal
    \/ literal = "erasure" /\ stem = "erasure-requests"

(* a file name: the dataset-kind prefix and the suffix *)
FileName(prefix, ext) == [prefix |-> prefix, ext |-> ext]

(* ------------------------------ records -------------------------------- *)
(* `ok` is the verdict of jsonschema.validate on the record (the schema    *)
(* documents are opaque contracts); a dictionary key that is absent holds  *)
(* Missing.                                                                *)
CustomerRecords ==
    {[id |-> k, ok |-> o, email |-> "a@x.com"] : k \in Keys, o \in BOOLEAN}

(* price as it stands in the JSON document: a numeric token, a string    *)
(* that is no number, or absent; a record that passes the schema has a     *)
(* numeric price.  float() raises on the other two.                        *)
Prices == {"10.0", "n/a", Missing}
IsNumeric(v) == v = "10.0"

ProductRecords ==
    {r \in [sku : Keys, ok : BOOLEAN, price : Prices] : r.ok => IsNumeric(r.price)}

(* a line item spells its quantity key qty_key ("quantity" or              *)
(* "quanitity"); amounts are in thousandths of the currency unit           *)
LineItems ==
    [sku : Keys, price : {5000}, qty_key : {"quantity", "quanitity"}, qty : {1}]

TotalCosts == {0, 5000}

TransactionRecords ==
    {[transaction_id |-> t, ok |-> o, customer_id |-> c,
      products |-> <<l>>, total_cost |-> tc, delivery_address |-> TRUE] :
        t \in Keys, o \in BOOLEAN, c \in Keys, l \in LineItems, tc \in TotalCosts}

(* an erasure request: "customer-id" (0 when absent or falsy), "email" (the *)
(* replacement value, Missing when absent); a request that passes the      *)
(* schema carries both                                                     *)
ErasureRequests ==
    {r \in [customer_id : 0..MaxKey, email : {"b@x.com", Missing}, ok : BOOLEAN] :
        r.ok => (r.customer_id # 0 /\ r.email # Missing)}

(* dict.get(key, default) on a line item *)
GetQty(product, key, default) ==
    IF product.qty_key = key THEN product.qty ELSE default

NaturalKey(kind, rec) ==
    CASE kind = "customers" -> rec.id
      [] kind = "products" -> rec.sku
      [] kind = "transactions" -> rec.transaction_id
      [] kind = "erasure" -> rec.customer_id

(* ------------------------------- store --------------------------------- *)
(* Each table is the sequence of its rows in insertion order; no table     *)
(* carries a uniqueness constraint of its own.                              *)
Tables == {"customers", "products", "transactions", "delivery_addresses",
           "purchases", "invalid_customers", "invalid_products",
           "invalid_transactions", "processing_statistics",
           "erasure_requests", "invalid_erasure_requests"}

EmptyStore == [t \in Tables |-> <<>>]

(* ------------------------- quarantine sinks ---------------------------- *)
(* customers_etl.log_invalid_customer: SELECT by id, then UPDATE the       *)
(* error_message of the existing rows or INSERT a new row; commit.         *)
log_invalid_customer(table, customer, error_message, date, hour) ==
    IF \E i \in 1..Len(table) : table[i].id = customer.id
    THEN [i \in 1..Len(table) |->
            IF table[i].id = customer.id
            THEN [table[i] EXCEPT !.error_message = error_message]
            ELSE table[i]]
    ELSE Append(table, [record_date |-> extract_actual_date(date),
                        record_hour |-> extract_actual_hour(hour),
                        id |-> customer.id,
                        email |-> customer.email,
                        error_message |-> error_message])

(* products_etl.log_invalid_product: INSERT; commit. *)
log_invalid_product(table, product, error_message, date, hour) ==
    Append(table, [record_date |-> extract_actual_date(date),
                   record_hour |-> extract_actual_hour(hour),
                   sku |-> product.sku,
                   price |-> product.price,
                   error_message |-> error_message])

(* erasure_requests_etl.log_invalid_erasure_request: SELECT by             *)
(* customer_id, then UPDATE or INSERT; commit.                             *)
log_invalid_erasure_request(table, erasure_request, error_message, date, hour) ==
    IF \E i \in 1..Len(table) : table[i].customer_id = erasure_request.customer_id
    THEN [i \in 1..Len(table) |->
            IF table[i].customer_id = erasure_request.customer_id
            THEN [table[i] EXCEPT !.error_message = error_message]
            ELSE table[i]]
    ELSE Append(table, [record_date |-> extract_actual_date(date),
                        record_hour |-> extract_actual_hour(hour),
                        customer_id |-> erasure_request.customer_id,
                        error_message |-> error_message])

(* transactions_etl.bulk_insert_invalid_transactions: executemany INSERT   *)
(* of the collected (transaction, error_message, date, hour); commit.      *)
bulk_insert_invalid_transactions(table, invalid_transactions) ==
    table \o [k \in 1..Len(invalid_transactions) |->
        [record_date |-> extract_actual_date(invalid_transactions[k].date),
         record_hour |-> extract_actual_hour(invalid_transactions[k].hour),
         transaction_id |-> invalid_transactions[k].rec.transaction_id,
         customer_id |-> invalid_transactions[k].rec.customer_id,
         error_message |-> invalid_transactions[k].reason]]

(* ----------------------- validation and dedup -------------------------- *)
(* The result of a validation loop: the indices (into the extracted data)  *)
(* of the records appended to the valid list, the records handed to the    *)
(* quarantine sink with their reasons, the uniqueness set, the rejects     *)
(* table as committed so far, and how the loop ended: "ok", "store" (a     *)
(* psycopg2 error propagated) or "record" (another exception propagated).  *)
(* failAt = i makes the store operation issued for record i fail; failAt = *)
(* Len(data) + 1 makes the trailing bulk insert fail; 0 is no failure.     *)
ValidateInit(table) ==
    [valid |-> <<>>, invalid |-> <<>>, seen |-> {}, table |-> table, status |-> "ok"]

Rejected(i, rec, reason, date, hour) ==
    [idx |-> i, rec |-> rec, reason |-> reason, date |-> date, hour |-> hour]

SchemaError == "ValidationError: instance does not match the schema"

(* customers_etl.transform_and_validate_customers, one iteration *)
CustomerStep(st, customer, i, date, hour, failAt) ==
    IF ~customer.ok
    THEN IF failAt = i THEN [st EXCEPT !.status = "store"]
         ELSE [st EXCEPT
                 !.invalid = Append(@, Rejected(i, customer, SchemaError, date, hour)),
                 !.table = log_invalid_customer(@, customer, SchemaError, date, hour)]
    ELSE IF customer.id \notin st.seen
    THEN [st EXCEPT !.seen = @ \cup {customer.id}, !.valid = Append(@, i)]
    ELSE IF failAt = i THEN [st EXCEPT !.status = "store"]
    ELSE [st EXCEPT
            !.invalid = Append(@, Rejected(i, customer, "Duplicate id", date, hour)),
            !.table = log_invalid_customer(@, customer, "Duplicate id", date, hour)]

(* products_etl.transform_and_validate_products, one iteration: the price  *)
(* is converted before the try block's validate; KeyError and ValueError   *)
(* are not caught by `except ValidationError`                              *)
ProductStep(st, product, i, date, hour, failAt) ==
    IF ~IsNumeric(product.price) THEN [st EXCEPT !.status = "record"]
    ELSE IF product.ok THEN [st EXCEPT !.valid = Append(@, i)]
    ELSE IF failAt = i THEN [st EXCEPT !.status = "store"]
    ELSE [st EXCEPT
            !.invalid = Append(@, Rejected(i, product, SchemaError, date, hour)),
            !.table = log_invalid_product(@, product, SchemaError, date, hour)]

(* erasure_requests_etl.transform_and_validate_erasure_requests, one       *)
(* iteration                                                               *)
ErasureStep(st, erasure_request, i, date, hour, failAt) ==
    IF ~erasure_request.ok
    THEN IF failAt = i THEN [st EXCEPT !.status = "store"]
         ELSE [st EXCEPT
                 !.invalid = Append(@, Rejected(i, erasure_request, SchemaError, date, hour)),
                 !.table = log_invalid_erasure_request(@, erasure_request, SchemaError,
                                                       date, hour)]
    ELSE IF erasure_request.customer_id # 0 /\ erasure_request.customer_id \notin st.seen
    THEN [st EXCEPT !.seen = @ \cup {erasure_request.customer_id},
                    !.valid = Append(@, i)]
    ELSE IF failAt = i THEN [st EXCEPT !.status = "store"]
    ELSE [st EXCEPT
            !.invalid = Append(@, Rejected(i, erasure_request, "Duplicate customer-id",
                                           date, hour)),
            !.table = log_invalid_erasure_request(@, erasure_request,
                                                  "Duplicate customer-id", date, hour)]

(* transactions_etl.is_existing_customer / is_existing_product *)
is_existing_customer(customers, customer_id) ==
    Count(customers, {row \in Range(customers) : row.id = customer_id}) > 0

is_existing_product(products, sku) ==
    Count(products, {row \in Range(products) : row.sku = sku}) > 0

are_valid_product_skus(products_table, products) ==
    \A k \in 1..Len(products) : is_existing_product(products_table, products[k].sku)

(* round(x, 2) on an amount in thousandths: to the nearest hundredth, ties *)
(* to even                                                                 *)
Round2(x) ==
    LET q == x \div 10
        r == x % 10
    IN  IF r < 5 THEN q * 10
        ELSE IF r > 5 THEN (q + 1) * 10
        ELSE IF q % 2 = 0 THEN q * 10 ELSE (q + 1) * 10

RECURSIVE CalculatedTotalCost(_, _)
CalculatedTotalCost(products, k) ==
    IF k > Len(products) THEN 0
    ELSE products[k].price * GetQty(products[k], "quanitity", 0)
         + CalculatedTotalCost(products, k + 1)

(* transactions_etl.is_valid_total_cost *)
is_valid_total_cost(products, total_cost) ==
    Round2(CalculatedTotalCost(products, 1)) = Round2(total_cost)

(* one iteration with the total-cost rule ahead of the two existence rules *)
TransactionStepCostFirst(st, transaction, i, date, hour, failAt, customers, products) ==
    IF ~transaction.ok
    THEN [st EXCEPT !.invalid = Append(@, Rejected(i, transaction, SchemaError, date, hour))]
    ELSE IF transaction.transaction_id \in st.seen
    THEN [st EXCEPT !.invalid =
            Append(@, Rejected(i, transaction, "Duplicate transaction_id", date, hour))]
    ELSE IF ~is_valid_total_cost(transaction.products, transaction.total_cost)
    THEN [st EXCEPT !.seen = @ \cup {transaction.transaction_id},
                    !.invalid = Append(@, Rejected(i, transaction, "Invalid total_cost", date, hour))]
    ELSE IF failAt = i
    THEN [st EXCEPT !.seen = @ \cup {transaction.transaction_id}, !.status = "store"]
    ELSE IF ~is_existing_customer(customers, transaction.customer_id)
    THEN [st EXCEPT !.seen = @ \cup {transaction.transaction_id},
                    !.invalid = Append(@, Rejected(i, transaction,
                            "Invalid customer_id: " \o ToString(transaction.customer_id),
                            date, hour))]
    ELSE IF ~are_valid_product_skus(products, transaction.products)
    THEN [st EXCEPT !.seen = @ \cup {transaction.transaction_id},
                    !.invalid = Append(@, Rejected(i, transaction, "Invalid product skus", date, hour))]
    ELSE [st EXCEPT !.seen = @ \cup {transaction.transaction_id}, !.valid = Append(@, i)]

(* transactions_etl.transform_and_validate_transactions, one iteration;    *)
(* the invalid records are only collected here                             *)
TransactionStep(st, transaction, i, date, hour, failAt, customers, products) ==
    IF ~transaction.ok
    THEN [st EXCEPT !.invalid = Append(@, Rejected(i, transaction, SchemaError, date, hour))]
    ELSE IF transaction.transaction_id \in st.seen
    THEN [st EXCEPT !.invalid =
            Append(@, Rejected(i, transaction, "Duplicate transaction_id", date, hour))]
    ELSE IF failAt = i
    THEN [st EXCEPT !.seen = @ \cup {transaction.transaction_id}, !.status = "store"]
    ELSE IF ~is_existing_customer(customers, transaction.customer_id)
    THEN [st EXCEPT !.seen = @ \cup {transaction.transaction_id},
                    !.invalid = Append(@, Rejected(i, transaction,
                            "Invalid customer_id: " \o ToString(transaction.customer_id),
                            date, hour))]
    ELSE IF ~are_valid_product_skus(products, transaction.products)
    THEN [st EXCEPT !.seen = @ \cup {transaction.transaction_id},
                    !.invalid = Append(@, Rejected(i, transaction, "Invalid product skus", date, hour))]
    ELSE IF ~is_valid_total_cost(transaction.products, transaction.total_cost)
    THEN [st EXCEPT !.seen = @ \cup {transaction.transaction_id},
                    !.invalid = Append(@, Rejected(i, transaction, "Invalid total_cost", date, hour))]
    ELSE [st EXCEPT !.seen = @ \cup {transaction.transaction_id}, !.valid = Append(@, i)]

RECURSIVE ValidateLoop(_, _, _, _, _, _, _, _)
ValidateLoop(kind, st, data, i, date, hour, failAt, store) ==
    IF i > Len(data) \/ st.status # "ok" THEN st
    ELSE LET next ==
               CASE kind = "customers" ->
                      CustomerStep(st, data[i], i, date, hour, failAt)
                 [] kind = "products" ->
                      ProductStep(st, data[i], i, date, hour, failAt)
                 [] kind = "transactions" ->
                      TransactionStep(st, data[i], i, date, hour, failAt,
                                      store.customers, store.products)
                 [] kind = "erasure" ->
                      ErasureStep(st, data[i], i, date, hour, failAt)
         IN ValidateLoop(kind, next, data, i + 1, date, hour, failAt, store)

InvalidTable(kind) ==
    CASE kind = "customers" -> "invalid_customers"
      [] kind = "products" -> "invalid_products"
      [] kind = "transactions" -> "invalid_transactions"
      [] kind = "erasure" -> "invalid_erasure_requests"

(* transform_and_validate_<kind>: the loop, then for transactions the bulk *)
(* insert of the collected invalid records                                 *)
transform_and_validate(kind, store, data, date, hour, failAt) ==
    LET st == ValidateLoop(kind, ValidateInit(store[InvalidTable(kind)]),
                           data, 1, date, hour, failAt, store)
    IN  IF kind # "transactions" \/ st.status # "ok" THEN st
        ELSE IF failAt = Len(data) + 1 THEN [st EXCEPT !.status = "store"]
        ELSE [st EXCEPT !.table = bulk_insert_invalid_transactions(@, st.invalid)]

(* ------------------------------ trees ---------------------------------- *)
(* A directory tree below its root: the date directories (dates) and the   *)
(* partition directories <<date folder, hour folder>> (dirs) that exist,   *)
(* and the files, a function from <<date folder, hour folder, file name>>  *)
(* to the file's lines (one JSON document per line).                       *)
EmptyTree == [dirs |-> {}, files |-> <<>>, dates |-> {}]

Put(f, k, v) == [x \in DOMAIN f \cup {k} |-> IF x = k THEN v ELSE f[x]]
Del(f, k) == [x \in DOMAIN f \ {k} |-> f[x]]

FilePath(date, hour, name) == <<date, hour, name>>

(* os.listdir of a partition directory *)
ListDir(tree, date, hour) ==
    {path[3] : path \in {q \in DOMAIN tree.files : q[1] = date /\ q[2] = hour}}

(* os.makedirs(exist_ok=True) and writing a file *)
WriteFile(tree, date, hour, name, lines) ==
    [dirs |-> tree.dirs \cup {<<date, hour>>},
     files |-> Put(tree.files, FilePath(date, hour, name), lines),
     dates |-> tree.dates \cup {date}]

MakeDirs(tree, date, hour) ==
    [tree EXCEPT !.dirs = @ \cup {<<date, hour>>}, !.dates = @ \cup {date}]

RemoveFile(tree, date, hour, name) ==
    [tree EXCEPT !.files = Del(@, FilePath(date, hour, name))]

(* --------------------------- record codec ------------------------------ *)
(* common.extract_data: "" -> []; .gz -> one record per line; .json ->     *)
(* the whole document as a one-element list.  file_path is "" or a path.   *)
(* gzip.open / open of a path that is not there raises FileNotFoundError;  *)
(* json.load of a .json file that does not hold exactly one document       *)
(* raises JSONDecodeError                                                  *)
ExtractRaises(tree, file_path) ==
    /\ file_path # <<>>
    /\ \/ file_path \notin DOMAIN tree.files
       \/ file_path[3].ext = JSON /\ Len(tree.files[file_path]) # 1

extract_data(tree, file_path) ==
    IF file_path = <<>> THEN <<>>
    ELSE IF file_path[3].ext = GZ THEN tree.files[file_path]
    ELSE <<tree.files[file_path][1]>>

(* the last_change stamp put on valid customers and products *)
Stamp(rec) ==
    [f \in DOMAIN rec \cup {"last_change"} |->
        IF f = "last_change" THEN "utcnow" ELSE rec[f]]

(* common.load_data: makedirs, then (only for a non-empty list) write one  *)
(* line per record to <kind-without-suffix><suffix>                        *)
load_data(tree, records, dataset_type, date, hour) ==
    IF records # <<>>
    THEN WriteFile(tree, date, hour, FileName(dataset_type.prefix, dataset_type.ext), records)
    ELSE MakeDirs(tree, date, hour)

(* common.archive_and_delete: rename into archive_path/date/hour/name *)
archive_and_delete(trees, file_path, dataset_type, date, hour) ==
    [raw |-> RemoveFile(trees.raw, file_path[1], file_path[2], file_path[3]),
     archived |-> WriteFile(trees.archived, date, hour, dataset_type,
                            trees.raw.files[file_path])]

(* --------------------------- load sinks -------------------------------- *)
(* the load sink without its existence check *)
RECURSIVE insert_customers_unchecked(_, _, _, _, _)
insert_customers_unchecked(table, date, hour, customers, k) ==
    IF k > Len(customers) THEN table
    ELSE insert_customers_unchecked(
             Append(table, [record_date |-> extract_actual_date(date),
                            record_hour |-> extract_actual_hour(hour),
                            id |-> customers[k].id,
                            email |-> customers[k].email]),
             date, hour, customers, k + 1)

(* customers_etl.log_processed_customers: per record SELECT COUNT by       *)
(* (record_date, record_hour, id), INSERT when 0; one commit at the end.   *)
RECURSIVE log_processed_customers(_, _, _, _, _)
log_processed_customers(table, date, hour, customers, k) ==
    IF k > Len(customers) THEN table
    ELSE LET d == extract_actual_date(date)
             h == extract_actual_hour(hour)
             count == Count(table, {row \in Range(table) :
                         row.record_date = d /\ row.record_hour = h
                         /\ row.id = customers[k].id})
             next == IF count = 0
                     THEN Append(table, [record_date |-> d, record_hour |-> h,
                                         id |-> customers[k].id,
                                         email |-> customers[k].email])
                     ELSE table
         IN log_processed_customers(next, date, hour, customers, k + 1)

(* the load sink as a replace: the rows of the key are deleted and the     *)
(* record is inserted again                                                *)
RECURSIVE replace_products(_, _, _, _, _)
replace_products(table, date, hour, products, k) ==
    IF k > Len(products) THEN table
    ELSE LET d == extract_actual_date(date)
             h == extract_actual_hour(hour)
             others == SelectIdx(table, {row \in Range(table) :
                          ~(row.record_date = d /\ row.record_hour = h
                            /\ row.sku = products[k].sku)}, 1)
         IN replace_products(
                Append(others, [record_date |-> d, record_hour |-> h,
                                sku |-> products[k].sku,
                                price |-> products[k].price]),
                date, hour, products, k + 1)

(* products_etl.log_processed_products *)
RECURSIVE log_processed_products(_, _, _, _, _)
log_processed_products(table, date, hour, products, k) ==
    IF k > Len(products) THEN table
    ELSE LET d == extract_actual_date(date)
             h == extract_actual_hour(hour)
             count == Count(table, {row \in Range(table) :
                         row.record_date = d /\ row.record_hour = h
                         /\ row.sku = products[k].sku})
             next == IF count = 0
                     THEN Append(table, [record_date |-> d, record_hour |-> h,
                                         sku |-> products[k].sku,
                                         price |-> products[k].price])
                     ELSE table
         IN log_processed_products(next, date, hour, products, k + 1)

PurchaseRows(transaction) ==
    [j \in 1..Len(transaction.products) |->
        [transaction_id |-> transaction.transaction_id,
         product_sku |-> transaction.products[j].sku,
         quantity |-> GetQty(transaction.products[j], "quanitity", Missing),
         price |-> transaction.products[j].price]]

(* transactions_etl.log_processed_transactions: per transaction SELECT     *)
(* COUNT by transaction_id alone; when 0, INSERT the parent row, the       *)
(* delivery address (when present) and one purchase row per line item;     *)
(* one commit at the end.                                                  *)
RECURSIVE log_processed_transactions(_, _, _, _, _)
log_processed_transactions(store, date, hour, transactions, k) ==
    IF k > Len(transactions) THEN store
    ELSE LET t == transactions[k]
             exists == Count(store.transactions, {row \in Range(store.transactions) :
                          row.transaction_id = t.transaction_id}) > 0
             next ==
               IF exists THEN store
               ELSE [store EXCEPT
                       !.transactions = Append(@,
                           [transaction_id |-> t.transaction_id,
                            customer_id |-> t.customer_id,
                            record_date |-> extract_actual_date(date),
                            record_hour |-> extract_actual_hour(hour)]),
                       !.delivery_addresses =
                           IF t.delivery_address
                           THEN Append(@, [transaction_id |-> t.transaction_id])
                           ELSE @,
                       !.purchases = @ \o PurchaseRows(t)]
         IN log_processed_transactions(next, date, hour, transactions, k + 1)

(* erasure_requests_etl.log_processed_erasure_requests *)
RECURSIVE log_processed_erasure_requests(_, _, _, _, _)
log_processed_erasure_requests(table, date, hour, requests, k) ==
    IF k > Len(requests) THEN table
    ELSE LET d == extract_actual_date(date)
             h == extract_actual_hour(hour)
             count == Count(table, {row \in Range(table) :
                         row.record_date = d /\ row.record_hour = h
                         /\ row.customer_id = requests[k].customer_id})
             next == IF count = 0
                     THEN Append(table, [record_date |-> d, record_hour |-> h,
                                         customer_id |-> requests[k].customer_id,
                                         email |-> requests[k].email])
                     ELSE table
         IN log_processed_erasure_requests(next, date, hour, requests, k + 1)

(* the load step of <kind>_etl.process_hourly_data *)
log_processed(kind, store, date, hour, records) ==
    CASE kind = "customers" ->
           [store EXCEPT !.customers = log_processed_customers(@, date, hour, records, 1)]
      [] kind = "products" ->
           [store EXCEPT !.products = log_processed_products(@, date, hour, records, 1)]
      [] kind = "transactions" ->
           log_processed_transactions(store, date, hour, records, 1)
      [] kind = "erasure" ->
           [store EXCEPT !.erasure_requests =
               log_processed_erasure_requests(@, date, hour, records, 1)]

(* The statements a load loop has issued when an exception that is no      *)
(* server error (raised in Python or by the driver before the statement    *)
(* is sent) leaves it at record k: the records before k as usual; of a     *)
(* transaction k that is not yet persisted the parent row alone (cut =     *)
(* "parent") or the parent row and the delivery address (cut = "address"). *)
Cuts == {"parent", "address"}

interrupted_load(kind, store, date, hour, records, k, cut) ==
    LET before == log_processed(kind, store, date, hour, SubSeq(records, 1, k - 1))
        t == records[k]
    IN  IF kind # "transactions" THEN before
        ELSE IF Count(before.transactions, {row \in Range(before.transactions) :
                         row.transaction_id = t.transaction_id}) > 0
        THEN before
        ELSE [before EXCEPT
                !.transactions = Append(@,
                    [transaction_id |-> t.transaction_id,
                     customer_id |-> t.customer_id,
                     record_date |-> extract_actual_date(date),
                     record_hour |-> extract_actual_hour(hour)]),
                !.delivery_addresses =
                    IF cut = "address" /\ t.delivery_address
                    THEN Append(@, [transaction_id |-> t.transaction_id])
                    ELSE @]

(* common.log_processing_statistics: INSERT one row; commit.  The duration *)
(* is wall-clock time and is left out of the row.                          *)
log_processing_statistics(table, date, hour, dataset_type, record_count) ==
    Append(table, [record_date |-> extract_actual_date(date),
                   record_hour |-> extract_actual_hour(hour),
                   dataset_type |-> dataset_type,
                   record_count |-> record_count])

(* ------------------------- erasure subsystem --------------------------- *)
(* hashlib.sha256(text.encode()).hexdigest(): a fixed-length digest that   *)
(* is no input text                                                        *)
Sha256(text) == "sha256:" \o text

(* erasure_requests_etl.get_date_and_hour_to_anonymize: the rows fetchone  *)
(* may return for SELECT record_date, record_hour ... WHERE id = %s (no    *)
(* ORDER BY); empty when the subject is not persisted                      *)
get_date_and_hour_to_anonymize(customers, customer_id) ==
    {<<customers[i].record_date, customers[i].record_hour>> :
        i \in {j \in 1..Len(customers) : customers[j].id = customer_id}}

ProcessedDir(date, hour) ==
    <<format_date_for_file_system(date), format_hour_for_file_system(hour)>>

(* erasure_requests_etl.locate_processed_data_file: os.listdir raises when *)
(* the directory does not exist; otherwise the customers files found       *)
LocateRaises(tree, date, hour) == ProcessedDir(date, hour) \notin tree.dirs

locate_processed_data_file(tree, date, hour) ==
    LET dir == ProcessedDir(date, hour)
    IN  {FilePath(dir[1], dir[2], name) :
            name \in {n \in ListDir(tree, dir[1], dir[2]) :
                        n.ext \in {JSON, GZ} /\ StartsWith(n.prefix, "customers")}}

(* every record anonymized, whatever its id *)
anonymize_every_record(lines, customer_id, erasure_request) ==
    [k \in 1..Len(lines) |-> [lines[k] EXCEPT !.email = Sha256(erasure_request.email)]]

(* erasure_requests_etl.anonymize_and_update_data: the lines of the file   *)
(* after the rewrite                                                       *)
anonymize_and_update_data(lines, customer_id, erasure_request) ==
    [k \in 1..Len(lines) |->
        IF lines[k].id = customer_id
        THEN [lines[k] EXCEPT !.email = Sha256(erasure_request.email)]
        ELSE lines[k]]

(* what an exception inside the try block of anonymize_and_update_data can *)
(* leave in the file: the old lines (the read failed) or a proper prefix   *)
(* of the new ones (the write failed after the file was truncated)         *)
FailedRewrites(lines, customer_id, erasure_request) ==
    {lines} \cup
    {SubSeq(anonymize_and_update_data(lines, customer_id, erasure_request), 1, n) :
        n \in 0..(Len(lines) - 1)}

(* erasure_requests_etl.archive_updated_file: rename into                  *)
(* ARCHIVED_DATA_PATH/str(date)/str(hour)/basename                         *)
ArchivePathOf(file_path, date, hour) ==
    FilePath(PyStr(date), PyStr(hour), file_path[3])

archive_updated_file(trees, file_path, lines, date, hour) ==
    [processed |-> RemoveFile(trees.processed, file_path[1], file_path[2], file_path[3]),
     archived |-> WriteFile(trees.archived, PyStr(date), PyStr(hour), file_path[3], lines)]

(* --------------------------- connection pool --------------------------- *)
(* A pool: the connections it holds ready (free) and those checked out     *)
(* (used).  common.create_connection_pool: a new SimpleConnectionPool with *)
(* minconn connections opened.                                             *)
MinConn == 1

NoPool == [free |-> {}, used |-> {}]

create_connection_pool == [free |-> 1..MinConn, used |-> {}]

(* SimpleConnectionPool.getconn / putconn; a connection put back while the *)
(* pool holds fewer than minconn is kept open                              *)
getconn(p) ==
    LET c == CHOOSE x \in p.free : TRUE
    IN  [connection |-> c,
         pool |-> [free |-> p.free \ {c}, used |-> p.used \cup {c}]]

putconn(p, c) == [free |-> p.free \cup {c}, used |-> p.used \ {c}]

(* common.get_postgres_connection is a generator context manager: getconn  *)
(* on entry, putconn in its finally clause.  common.connect_to_postgres    *)
(* returns from inside the with block, so the finally clause has run when  *)
(* the caller receives the connection.                                     *)
connect_to_postgres ==
    LET got == getconn(create_connection_pool)
    IN  [connection |-> got.connection,
         pool |-> putconn(got.pool, got.connection)]

(* ------------------------------- state --------------------------------- *)
VARIABLES
    kind,        \* the dataset kind whose entry point runs
    raw,         \* the raw-input tree
    processed,   \* the processed-output tree
    archived,    \* the archive tree
    db,          \* the committed tables of the relational store
    pc,          \* position of the run in process_all_data / process_hourly_data
    runs,        \* number of runs started
    err,         \* how the last run ended: "none", "store", "record", "client",
                 \* "fs", "killed"
    todo,        \* the sorted partitions the run has still to visit
    datasets,    \* dataset_paths of the current partition still to archive
    src,         \* the file names handed to extract_data for the current partition
    data,        \* the extracted raw records
    valid,       \* indices into data of the records in the valid output
    invalid,     \* the records handed to the quarantine sink, with reasons
    erasure,     \* process_erasure_requests: index of the next request, and
                 \* what became of the requests handled so far
    pool         \* the connection pool of the run and what it has checked out

vars == <<kind, raw, processed, archived, db, pc, runs, err, todo, datasets,
          src, data, valid, invalid, erasure, pool>>

fsVars == <<raw, processed, archived>>
locals == <<todo, datasets, src, data, valid, invalid, erasure>>

NoErasure == [next |-> 1, log |-> <<>>]

(* the stem of the files of a kind, and the literal dataset type of its    *)
(* pipeline, "<stem>.json.gz"                                              *)
Stem(k) == IF k = "erasure" THEN "erasure-requests" ELSE k
DatasetType(k) == FileName(Stem(k), GZ)

(* the dataset type written to the statistics row *)
StatisticsType(k) ==
    IF k = "erasure" THEN FileName("erasure_requests", GZ) ELSE DatasetType(k)

CurDate == Head(todo)[1]
CurHour == Head(todo)[2]

(* the valid output as records; customers and products are stamped *)
ValidRecords ==
    [k \in 1..Len(valid) |->
        IF kind \in {"customers", "products"}
        THEN Stamp(data[valid[k]]) ELSE data[valid[k]]]

ResetLocals ==
    /\ todo' = <<>>
    /\ datasets' = {}
    /\ src' = {}
    /\ data' = <<>>
    /\ valid' = <<>>
    /\ invalid' = <<>>
    /\ erasure' = NoErasure

(* an exception reaches the except clause of process_all_data: it is       *)
(* logged, the cleanup pass is skipped and the run returns                 *)
Abort(why) ==
    /\ pc' = "idle"
    /\ err' = why
    /\ ResetLocals

(* ------------------------------ actions -------------------------------- *)
(* main: `with connect_to_postgres() as connection`, then                  *)
(* process_all_data: list and sort the partition folders                   *)
StartRun ==
    /\ pc = "idle"
    /\ runs < MaxRuns
    /\ runs' = runs + 1
    /\ err' = "none"
    /\ pc' = "scan"
    /\ pool' = connect_to_postgres.pool
    /\ todo' = SortedParts({p \in raw.dirs : p[1] \in raw.dates})
    /\ UNCHANGED <<kind, fsVars, db, datasets, src, data, valid, invalid, erasure>>

(* the filter on the listing of the hour folder *)
AvailableDatasets(k, date, hour) ==
    {name \in ListDir(raw, date, hour) :
        StartsWith(name.prefix, k) /\ name.ext \in {JSON, GZ}}

(* process_all_data: the head of the loop over the hour folders *)
NextPartition ==
    /\ pc = "scan"
    /\ todo # <<>>
    /\ LET available == AvailableDatasets(kind, CurDate, CurHour)
       IN  IF available # {}
           THEN /\ pc' = "extract"
                /\ datasets' = available
                /\ UNCHANGED todo
           ELSE /\ todo' = Tail(todo)
                /\ UNCHANGED <<pc, datasets>>
    /\ UNCHANGED <<kind, pool, fsVars, db, runs, err, src, data, valid, invalid, erasure>>

(* process_hourly_data: extract_data(dataset_paths.get("<kind>.json.gz", "")); *)
(* the erasure pipeline extracts both erasure-requests.json.gz and          *)
(* erasure-requests.json when they are among dataset_paths                  *)
Extract ==
    /\ pc = "extract"
    /\ LET wanted == IF kind = "erasure"
                     THEN <<DatasetType(kind), FileName(Stem(kind), JSON)>>
                     ELSE <<DatasetType(kind)>>
           read == SelectIdx(wanted, datasets, 1)
           PathOf(name) == FilePath(CurDate, CurHour, name)
           RECURSIVE Concat(_)
           Concat(k) == IF k > Len(read) THEN <<>>
                        ELSE extract_data(raw, PathOf(read[k])) \o Concat(k + 1)
       IN  IF \E k \in 1..Len(read) : ExtractRaises(raw, PathOf(read[k]))
           THEN Abort("record")
           ELSE /\ data' = IF read = <<>> THEN extract_data(raw, <<>>) ELSE Concat(1)
                /\ src' = Range(read)
                /\ pc' = "validate"
                /\ UNCHANGED <<err, todo, datasets, valid, invalid, erasure>>
    /\ UNCHANGED <<kind, pool, fsVars, db, runs>>

(* process_hourly_data: transform_and_validate_<kind>; rejects committed   *)
(* before an exception stay committed                                      *)
Validate ==
    /\ pc = "validate"
    /\ \E failAt \in 0..(Len(data) + 1) :
         LET st == transform_and_validate(kind, db, data, CurDate, CurHour, failAt)
         IN  /\ failAt # 0 => st.status = "store"
             /\ db' = [db EXCEPT ![InvalidTable(kind)] = st.table]
             /\ IF st.status = "ok"
                THEN /\ valid' = st.valid
                     /\ invalid' = st.invalid
                     /\ pc' = IF kind # "erasure" THEN "write"
                              ELSE IF data = <<>> THEN "load" ELSE "erase"
                     /\ UNCHANGED <<err, todo, datasets, src, data, erasure>>
                ELSE Abort(st.status)
    /\ UNCHANGED <<kind, pool, fsVars, runs>>

(* the pass goes on to the load without re-serializing the valid records  *)
WriteProcessedSkipped ==
    /\ pc = "write"
    /\ pc' = "load"
    /\ UNCHANGED <<kind, pool, fsVars, db, runs, err, locals>>

(* process_hourly_data: load_data of the valid records *)
WriteProcessed ==
    /\ pc = "write"
    /\ processed' = load_data(processed, ValidRecords, DatasetType(kind), CurDate, CurHour)
    /\ pc' = "load"
    /\ UNCHANGED <<kind, pool, raw, archived, db, runs, err, locals>>

(* process_hourly_data: log_processed_<kind>, committed as a whole *)
Load ==
    /\ pc = "load"
    /\ db' = log_processed(kind, db, CurDate, CurHour, ValidRecords)
    /\ pc' = "stats"
    /\ UNCHANGED <<kind, pool, fsVars, runs, err, locals>>

(* process_hourly_data: log_processing_statistics *)
Stats ==
    /\ pc = "stats"
    /\ db' = [db EXCEPT !.processing_statistics =
                log_processing_statistics(@, CurDate, CurHour, StatisticsType(kind),
                                          IF kind = "erasure" THEN Len(data) ELSE Len(valid))]
    /\ pc' = "archive"
    /\ UNCHANGED <<kind, pool, fsVars, runs, err, locals>>

(* process_hourly_data: one iteration of the archive loop over             *)
(* dataset_paths; after the last one the run goes on to the next partition *)
Archive ==
    /\ pc = "archive"
    /\ \E name \in datasets :
         LET moved == archive_and_delete([raw |-> raw, archived |-> archived],
                          FilePath(CurDate, CurHour, name), name, CurDate, CurHour)
         IN  /\ raw' = moved.raw
             /\ archived' = moved.archived
             /\ datasets' = datasets \ {name}
             /\ IF datasets \ {name} = {}
                THEN /\ pc' = "scan"
                     /\ todo' = Tail(todo)
                     /\ src' = {}
                     /\ data' = <<>>
                     /\ valid' = <<>>
                     /\ invalid' = <<>>
                     /\ erasure' = NoErasure
                ELSE UNCHANGED <<pc, todo, src, data, valid, invalid, erasure>>
    /\ UNCHANGED <<kind, pool, processed, db, runs, err>>

(* the error is swallowed inside the partition pass, which goes on to the   *)
(* archive loop                                                            *)
StoreFailureSwallowed ==
    /\ pc \in {"load", "stats"}
    /\ pc' = "archive"
    /\ UNCHANGED <<kind, pool, fsVars, db, runs, err, locals>>

(* a psycopg2 error in log_processed_<kind> or log_processing_statistics:  *)
(* nothing of the statement's transaction is committed                     *)
StoreFailure ==
    /\ pc \in {"load", "stats"}
    /\ Abort("store")
    /\ UNCHANGED <<kind, pool, fsVars, db, runs>>

(* an exception that is no server error inside log_processed_<kind>: the   *)
(* transaction stays open with the statements issued so far; the except    *)
(* clause of process_all_data swallows the exception, so the block         *)
(* `with connect_to_postgres() as connection` of main ends normally and    *)
(* the connection's __exit__ commits the open transaction                  *)
LoadClientFailure ==
    /\ pc = "load"
    /\ \E k \in 1..Len(valid), cut \in Cuts :
         db' = interrupted_load(kind, db, CurDate, CurHour, ValidRecords, k, cut)
    /\ Abort("client")
    /\ UNCHANGED <<kind, pool, fsVars, runs>>

(* an OSError in load_data or archive_and_delete *)
FileSystemFailure ==
    /\ pc \in {"write", "archive"}
    /\ Abort("fs")
    /\ UNCHANGED <<kind, pool, fsVars, db, runs>>

(* the walk top-down: a date directory is looked at before the hour        *)
(* directories below it                                                    *)
cleanup_top_down(tree) ==
    [tree EXCEPT
       !.dates = {date \in @ : \E d \in tree.dirs : d[1] = date},
       !.dirs = {d \in @ : ListDir(tree, d[1], d[2]) # {}}]

(* common.cleanup_empty_directories: os.walk(directory, topdown=False)     *)
(* yields a directory after the directories below it; for every            *)
(* sub-directory named in the yielded tuple, os.rmdir when os.listdir of   *)
(* it is empty at that moment.  The hour directories are looked at when    *)
(* their date directory is yielded, the date directories when the root is  *)
(* yielded, after their hour directories were removed; the root is no      *)
(* sub-directory of a yielded directory.  Files are not touched.           *)
cleanup_empty_directories(tree) ==
    LET hours == {d \in tree.dirs : ListDir(tree, d[1], d[2]) # {}}
    IN  [tree EXCEPT
           !.dirs = hours,
           !.dates = {date \in @ : \E d \in hours : d[1] = date}]

(* process_all_data: common.cleanup_empty_directories on the raw tree,     *)
(* after the last partition                                                *)

Cleanup ==
    /\ pc = "scan"
    /\ todo = <<>>
    /\ raw' = cleanup_empty_directories(raw)
    /\ pc' = "idle"
    /\ UNCHANGED <<kind, pool, processed, archived, db, runs, err, locals>>

(* the process is killed between two steps *)
Kill ==
    /\ pc # "idle"
    /\ Abort("killed")
    /\ UNCHANGED <<kind, pool, fsVars, db, runs>>

(* ---------------------- erasure request handling ----------------------- *)
CurRequest == data[erasure.next]

Logged(status, part, file, archive, rewritten) ==
    [status |-> status, part |-> part, file |-> file, archive |-> archive,
     rewritten |-> rewritten]

(* the loop of process_erasure_requests moves on to the next request, or   *)
(* the partition pass goes on to log_processed_erasure_requests            *)
Advance(entry) ==
    /\ erasure' = [next |-> erasure.next + 1, log |-> Append(erasure.log, entry)]
    /\ pc' = IF erasure.next = Len(data) THEN "load" ELSE "erase"
    /\ UNCHANGED <<err, todo, datasets, src, data, valid, invalid>>

(* process_erasure_requests, one iteration that raises nothing, or raises  *)
(* AttributeError on a request without an email                            *)
EraseRequest ==
    /\ pc = "erase"
    /\ LET req == CurRequest
           found == get_date_and_hour_to_anonymize(db.customers, req.customer_id)
       IN  IF req.customer_id = 0 \/ found = {}
           THEN /\ Advance(Logged("Dropped", <<>>, <<>>, <<>>, FALSE))
                /\ UNCHANGED fsVars
           ELSE \E result \in found :
                  /\ ~LocateRaises(processed, result[1], result[2])
                  /\ LET files == locate_processed_data_file(processed, result[1], result[2])
                     IN  IF files = {}
                         THEN /\ Advance(Logged("Dropped", result, <<>>, <<>>, FALSE))
                              /\ UNCHANGED fsVars
                         ELSE \E file_path \in files :
                                IF req.email = Missing
                                THEN Abort("record") /\ UNCHANGED fsVars
                                ELSE LET lines == anonymize_and_update_data(
                                                      processed.files[file_path],
                                                      req.customer_id, req)
                                         moved == archive_updated_file(
                                                      [processed |-> processed,
                                                       archived |-> archived],
                                                      file_path, lines,
                                                      result[1], result[2])
                                     IN  /\ processed' = moved.processed
                                         /\ archived' = moved.archived
                                         /\ raw' = raw
                                         /\ Advance(Logged("Archived", result, file_path,
                                                ArchivePathOf(file_path, result[1], result[2]),
                                                TRUE))
    /\ UNCHANGED <<kind, pool, db, runs>>

(* the rewrite raises inside the try block: the exception is logged and    *)
(* the file is archived as the failed rewrite left it                      *)
EraseRewriteFailure ==
    /\ pc = "erase"
    /\ CurRequest.customer_id # 0
    /\ CurRequest.email # Missing
    /\ \E result \in get_date_and_hour_to_anonymize(db.customers, CurRequest.customer_id) :
         /\ ~LocateRaises(processed, result[1], result[2])
         /\ \E file_path \in locate_processed_data_file(processed, result[1], result[2]) :
              \E lines \in FailedRewrites(processed.files[file_path],
                                          CurRequest.customer_id, CurRequest) :
                 LET moved == archive_updated_file(
                                  [processed |-> processed, archived |-> archived],
                                  file_path, lines, result[1], result[2])
                 IN  /\ processed' = moved.processed
                     /\ archived' = moved.archived
                     /\ raw' = raw
                     /\ Advance(Logged("Archived", result, file_path,
                            ArchivePathOf(file_path, result[1], result[2]), FALSE))
    /\ UNCHANGED <<kind, pool, db, runs>>

(* os.listdir of a processed-output directory that does not exist raises   *)
(* FileNotFoundError out of locate_processed_data_file                     *)
EraseLocateFailure ==
    /\ pc = "erase"
    /\ CurRequest.customer_id # 0
    /\ \E result \in get_date_and_hour_to_anonymize(db.customers, CurRequest.customer_id) :
         LocateRaises(processed, result[1], result[2])
    /\ Abort("fs")
    /\ UNCHANGED <<kind, pool, fsVars, db, runs>>

(* a psycopg2 error in the SELECT of get_date_and_hour_to_anonymize *)
EraseStoreFailure ==
    /\ pc = "erase"
    /\ CurRequest.customer_id # 0
    /\ Abort("store")
    /\ UNCHANGED <<kind, pool, fsVars, db, runs>>

(* --------------------------- initial states ---------------------------- *)
(* the records a pipeline run is fed *)
PipelineRecords(k) ==
    CASE k = "customers" -> CustomerRecords
      [] k = "products" -> {r \in ProductRecords : r.price # "n/a"}
      [] k = "transactions" ->
           {r \in TransactionRecords :
               /\ r.products[1].sku = 1
               /\ r.customer_id = 1
               /\ ~r.ok => (r.total_cost = 5000 /\ r.products[1].qty_key = "quantity")}

(* what one hour folder holds: which of <kind>.json.gz and <kind>.json,    *)
(* and the lines of the former                                             *)
FolderChoices(k) ==
    {c \in [exts : SUBSET Exts, batch : SeqsUpTo(PipelineRecords(k), MaxBatch)] :
        GZ \notin c.exts => c.batch = <<>>}

RawTree(k, choice) ==
    [dirs |-> Parts,
     dates |-> {p[1] : p \in Parts},
     files |-> [path \in {q \in {FilePath(p[1], p[2], FileName(k, e)) :
                                   p \in Parts, e \in Exts} :
                            q[3].ext \in choice[<<q[1], q[2]>>].exts} |->
                  IF path[3].ext = GZ
                  THEN choice[<<path[1], path[2]>>].batch
                  ELSE <<CHOOSE r \in PipelineRecords(k) : TRUE>>]]

RECURSIVE SumLen(_, _)
SumLen(choice, S) ==
    IF S = {} THEN 0
    ELSE LET p == CHOOSE q \in S : TRUE
         IN Len(choice[p].batch) + SumLen(choice, S \ {p})

(* reference data loaded by the other pipelines *)
ReferenceStores(k) ==
    IF k # "transactions" THEN {EmptyStore}
    ELSE {[EmptyStore EXCEPT
             !.customers = c, !.products = pr] :
           c \in {<<>>, <<[record_date |-> 1, record_hour |-> 1, id |-> 1,
                          email |-> "a@x.com"]>>},
           pr \in {<<[record_date |-> 1, record_hour |-> 1, sku |-> 1,
                      price |-> "10.0"]>>}}

Init ==
    /\ kind \in Kinds
    /\ \E choice \in [Parts -> FolderChoices(kind)] :
         /\ SumLen(choice, Parts) <= MaxBatch
         /\ raw = RawTree(kind, choice)
    /\ processed = EmptyTree
    /\ archived = EmptyTree
    /\ db \in ReferenceStores(kind)
    /\ pc = "idle"
    /\ runs = 0
    /\ err = "none"
    /\ todo = <<>>
    /\ datasets = {}
    /\ src = {}
    /\ data = <<>>
    /\ valid = <<>>
    /\ invalid = <<>>
    /\ erasure = NoErasure
    /\ pool = NoPool

Next ==
    \/ StartRun
    \/ NextPartition
    \/ Extract
    \/ Validate
    \/ WriteProcessed
    \/ Load
    \/ Stats
    \/ Archive
    \/ StoreFailure
    \/ LoadClientFailure
    \/ FileSystemFailure
    \/ Cleanup
    \/ Kill

Spec == Init /\ [][Next]_vars

(* ----------------- the erasure entry point on its own ------------------ *)
(* What the customers pipeline left behind: per partition the persisted    *)
(* customers (distinct ids, here in ascending order) and the state of the  *)
(* processed-output                                                        *)
(* directory: absent, empty, or holding customers.json.gz.                 *)
PersistedCustomers ==
    {recs \in SeqsUpTo({[id |-> k, ok |-> TRUE, email |-> "a@x.com"] : k \in Keys},
                       MaxBatch) :
        \A i, j \in 1..Len(recs) : i < j => recs[i].id < recs[j].id}

ProcessedChoices ==
    {c \in [dir : {"none", "empty", "file"}, recs : PersistedCustomers] :
        c.dir = "file" => c.recs # <<>>}

ProcessedTree(choice) ==
    [dirs |-> {p \in Parts : choice[p].dir # "none"},
     dates |-> {p[1] : p \in {q \in Parts : choice[q].dir # "none"}},
     files |-> [path \in {FilePath(p[1], p[2], DatasetType("customers")) :
                            p \in {q \in Parts : choice[q].dir = "file"}} |->
                  [k \in 1..Len(choice[<<path[1], path[2]>>].recs) |->
                      Stamp(choice[<<path[1], path[2]>>].recs[k])]]]

RECURSIVE CustomerRows(_, _)
CustomerRows(choice, parts) ==
    IF parts = <<>> THEN <<>>
    ELSE LET p == Head(parts)
         IN  [k \in 1..Len(choice[p].recs) |->
                 [record_date |-> extract_actual_date(p[1]),
                  record_hour |-> extract_actual_hour(p[2]),
                  id |-> choice[p].recs[k].id,
                  email |-> choice[p].recs[k].email]]
             \o CustomerRows(choice, Tail(parts))

FirstPart == Head(SortedParts(Parts))

InitErasure ==
    /\ kind = "erasure"
    /\ \E batch \in SeqsUpTo(ErasureRequests, MaxBatch) :
         raw = [dirs |-> Parts,
                dates |-> {p[1] : p \in Parts},
                files |-> [path \in {FilePath(FirstPart[1], FirstPart[2],
                                              DatasetType("erasure"))} |-> batch]]
    /\ \E choice \in [Parts -> ProcessedChoices] :
         /\ processed = ProcessedTree(choice)
         /\ db = [EmptyStore EXCEPT !.customers = CustomerRows(choice, SortedParts(Parts))]
    /\ archived = EmptyTree
    /\ pc = "idle"
    /\ runs = 0
    /\ err = "none"
    /\ todo = <<>>
    /\ datasets = {}
    /\ src = {}
    /\ data = <<>>
    /\ valid = <<>>
    /\ invalid = <<>>
    /\ erasure = NoErasure
    /\ pool = NoPool

NextErasure ==
    \/ StartRun
    \/ NextPartition
    \/ Extract
    \/ Validate
    \/ EraseRequest
    \/ EraseRewriteFailure
    \/ EraseLocateFailure
    \/ EraseStoreFailure
    \/ Load
    \/ Stats
    \/ Archive
    \/ StoreFailure
    \/ FileSystemFailure
    \/ Cleanup

SpecErasure == InitErasure /\ [][NextErasure]_vars

(* ------- the customers and the erasure entry point, one by one --------- *)
(* The customers flow and the erasure flow are invoked one after the       *)
(* other, in any order, each invocation a whole run; the input tree holds  *)
(* one customers file and one erasure-requests file.                       *)
StartEntryPoint ==
    /\ pc = "idle"
    /\ runs < MaxEntryRuns
    /\ kind' \in {"customers", "erasure"}
    /\ runs' = runs + 1
    /\ err' = "none"
    /\ pc' = "scan"
    /\ pool' = connect_to_postgres.pool
    /\ todo' = SortedParts({p \in raw.dirs : p[1] \in raw.dates})
    /\ UNCHANGED <<fsVars, db, datasets, src, data, valid, invalid, erasure>>

InitEntryPoints ==
    /\ kind = "customers"
    /\ \E p \in Parts, customers \in SeqsUpTo(CustomerRecords, MaxBatch),
          requests \in SeqsUpTo({r \in ErasureRequests : r.ok}, 1) :
         raw = [dirs |-> Parts,
                dates |-> {q[1] : q \in Parts},
                files |-> Put(Put(<<>>,
                                  FilePath(FirstPart[1], FirstPart[2],
                                           DatasetType("erasure")), requests),
                              FilePath(p[1], p[2], DatasetType("customers")),
                              customers)]
    /\ processed = EmptyTree
    /\ archived = EmptyTree
    /\ db = EmptyStore
    /\ pc = "idle"
    /\ runs = 0
    /\ err = "none"
    /\ todo = <<>>
    /\ datasets = {}
    /\ src = {}
    /\ data = <<>>
    /\ valid = <<>>
    /\ invalid = <<>>
    /\ erasure = NoErasure
    /\ pool = NoPool

NextEntryPoints ==
    \/ StartEntryPoint
    \/ NextPartition
    \/ Extract
    \/ Validate
    \/ WriteProcessed
    \/ EraseRequest
    \/ EraseRewriteFailure
    \/ EraseStoreFailure
    \/ Load
    \/ Stats
    \/ Archive
    \/ StoreFailure
    \/ FileSystemFailure
    \/ Cleanup

SpecEntryPoints == InitEntryPoints /\ [][NextEntryPoints]_vars

(* ------------- the products entry point, invoked for ever -------------- *)
(* The flow is invoked again and again.  Store and file-system errors are  *)
(* transient: they occur during the first MaxRuns - 1 invocations only.    *)
(* The batches hold products that pass the schema and products without a   *)
(* price; neither makes the validation issue a store operation, so the     *)
(* tables stay bounded under any number of invocations.                    *)
Invoke ==
    /\ pc = "idle"
    /\ runs' = IF runs < MaxRuns THEN runs + 1 ELSE runs
    /\ err' = "none"
    /\ pc' = "scan"
    /\ pool' = connect_to_postgres.pool
    /\ todo' = SortedParts({p \in raw.dirs : p[1] \in raw.dates})
    /\ UNCHANGED <<kind, fsVars, db, datasets, src, data, valid, invalid, erasure>>

TransientStoreFailure ==
    /\ runs < MaxRuns
    /\ StoreFailure

TransientFileSystemFailure ==
    /\ runs < MaxRuns
    /\ FileSystemFailure

RetryRecords == {r \in PipelineRecords("products") : r.ok \/ r.price = Missing}

InitRetry ==
    /\ kind = "products"
    /\ \E choice \in [Parts -> {c \in FolderChoices("products") :
                                  Range(c.batch) \subseteq RetryRecords}] :
         /\ SumLen(choice, Parts) <= MaxBatch
         /\ raw = RawTree(kind, choice)
    /\ processed = EmptyTree
    /\ archived = EmptyTree
    /\ db = EmptyStore
    /\ pc = "idle"
    /\ runs = 0
    /\ err = "none"
    /\ todo = <<>>
    /\ datasets = {}
    /\ src = {}
    /\ data = <<>>
    /\ valid = <<>>
    /\ invalid = <<>>
    /\ erasure = NoErasure
    /\ pool = NoPool

NextRetry ==
    \/ Invoke
    \/ NextPartition
    \/ Extract
    \/ Validate
    \/ WriteProcessed
    \/ Load
    \/ Stats
    \/ Archive
    \/ TransientStoreFailure
    \/ TransientFileSystemFailure
    \/ Cleanup

(* a run is one thread that takes its next step whenever it has one, and   *)
(* the scheduler invokes the flow again after every return                 *)
FairRetry ==
    /\ WF_vars(Invoke)
    /\ WF_vars(NextPartition)
    /\ WF_vars(Extract)
    /\ WF_vars(Validate)
    /\ WF_vars(WriteProcessed)
    /\ WF_vars(Load)
    /\ WF_vars(Stats)
    /\ WF_vars(Archive)
    /\ WF_vars(Cleanup)

SpecRetry == InitRetry /\ [][NextRetry]_vars /\ FairRetry

(* ------------------- what the caller of a run sees --------------------- *)
(* process_all_data catches (psycopg2.Error, Exception) and logs; main and *)
(* the flow task catch again.  An exception inside the run therefore never *)
(* leaves main: the call returns None.  Only the death of the process is   *)
(* visible from outside.                                                   *)
main(how) == IF how = "killed" THEN "exit" ELSE "returned"

(* ------------------------ the codec on its own ------------------------- *)
(* common.load_data of a record sequence under one of the two suffixes,    *)
(* then common.extract_data of the path the file was to be written to      *)
CodecPath == FilePath(CurDate, CurHour, CHOOSE name \in src : TRUE)

InitCodec ==
    /\ kind \in Kinds
    /\ data \in SeqsUpTo(PipelineRecords(kind), MaxBatch)
    /\ \E part \in Parts : todo = <<part>>
    /\ \E ext \in Exts : src = {FileName(kind, ext)}
    /\ raw = EmptyTree
    /\ processed = EmptyTree
    /\ archived = EmptyTree
    /\ db = EmptyStore
    /\ pc = "codec"
    /\ runs = 0
    /\ err = "none"
    /\ datasets = {}
    /\ valid = <<>>
    /\ invalid = <<>>
    /\ erasure = NoErasure
    /\ pool = NoPool

CodecWrite ==
    /\ pc = "codec"
    /\ processed' = load_data(processed, data, CodecPath[3], CurDate, CurHour)
    /\ pc' = "codec_written"
    /\ UNCHANGED <<kind, pool, raw, archived, db, runs, err, locals>>

CodecExtract ==
    /\ pc = "codec_written"
    /\ pc' = "idle"
    /\ IF ExtractRaises(processed, CodecPath)
       THEN err' = "record" /\ UNCHANGED data
       ELSE data' = extract_data(processed, CodecPath) /\ UNCHANGED err
    /\ UNCHANGED <<kind, pool, fsVars, db, runs, todo, datasets, src, valid, invalid, erasure>>

NextCodec ==
    \/ CodecWrite
    \/ CodecExtract

SpecCodec == InitCodec /\ [][NextCodec]_vars

(* ============================== claims ================================= *)
PartitionRows(table, d, h) ==
    Count(table, {row \in Range(table) : row.record_date = d /\ row.record_hour = h})

RowKey(k, row) ==
    CASE k = "customers" -> row.id
      [] k = "products" -> row.sku
      [] k = "transactions" -> row.transaction_id

(* number of persisted rows of the running kind that carry the natural key *)
(* of rec under the uniqueness scope of the kind: (partition, key) for     *)
(* customers and products, the transaction id alone for transactions       *)
PersistedCopies(rec, d, h) ==
    Count(db[kind], {row \in Range(db[kind]) :
        /\ RowKey(kind, row) = NaturalKey(kind, rec)
        /\ kind # "transactions" => (row.record_date = d /\ row.record_hour = h)})

(* C1: after any sequence of runs, re-runs of a partition and aborted runs *)
(* included, the store holds at most one customers row and one products    *)
(* row per (partition, natural key) and at most one parent row per         *)
(* transaction id; right after the load step every record of the valid set *)
(* has exactly one row, not two.                                           *)
C1_IdempotentLoad ==
    /\ \A i, j \in 1..Len(db.customers) :
         (/\ db.customers[i].record_date = db.customers[j].record_date
          /\ db.customers[i].record_hour = db.customers[j].record_hour
          /\ db.customers[i].id = db.customers[j].id) => i = j
    /\ \A i, j \in 1..Len(db.products) :
         (/\ db.products[i].record_date = db.products[j].record_date
          /\ db.products[i].record_hour = db.products[j].record_hour
          /\ db.products[i].sku = db.products[j].sku) => i = j
    /\ \A i, j \in 1..Len(db.transactions) :
         db.transactions[i].transaction_id = db.transactions[j].transaction_id => i = j
    /\ pc = "stats" =>
         \A k \in 1..Len(valid) :
            PersistedCopies(data[valid[k]], extract_actual_date(CurDate),
                            extract_actual_hour(CurHour)) = 1

(* the load step has just run a second time over a partition whose         *)
(* earlier pass had loaded the same number of valid records                *)
C1_Witness ==
    /\ pc = "stats"
    /\ valid # <<>>
    /\ \E i \in 1..Len(db.processing_statistics) :
         LET row == db.processing_statistics[i]
         IN  /\ row.record_date = extract_actual_date(CurDate)
             /\ row.record_hour = extract_actual_hour(CurHour)
             /\ row.record_count = Len(valid)

(* C2: every source file moved into the archive tree was extracted by the  *)
(* run that moves it, its records are all classified and its valid records *)
(* are persisted; this for every file the run selected, <kind>.json as     *)
(* well as <kind>.json.gz.                                                 *)
C2_ArchivalGating ==
    [][\A path \in DOMAIN archived'.files \ DOMAIN archived.files :
          /\ path[3] \in src
          /\ Len(valid) + Len(invalid) = Len(data)
          /\ \A k \in 1..Len(valid) :
               PersistedCopies(data[valid[k]], extract_actual_date(CurDate),
                               extract_actual_hour(CurHour)) >= 1]_vars

(* ---- what the rules of the specification say about a record ---- *)
LineSum(rec) ==
    LET RECURSIVE S(_)
        S(k) == IF k > Len(rec.products) THEN 0
                ELSE rec.products[k].price * rec.products[k].qty + S(k + 1)
    IN S(1)

SharesEarlierKey(i) ==
    \E j \in 1..(i - 1) :
        data[j].ok /\ NaturalKey(kind, data[j]) = NaturalKey(kind, data[i])

FailsARule(i) ==
    \/ ~data[i].ok
    \/ SharesEarlierKey(i)
    \/ /\ kind = "transactions"
       /\ \/ \A c \in 1..Len(db.customers) :
                db.customers[c].id # data[i].customer_id
          \/ \E k \in 1..Len(data[i].products) :
                \A q \in 1..Len(db.products) :
                   db.products[q].sku # data[i].products[k].sku
          \/ Round2(LineSum(data[i])) # Round2(data[i].total_cost)

QuarantinedIdx == {invalid[k].idx : k \in 1..Len(invalid)}
ValidIdx == Range(valid)

HasQuarantineEntry(i) ==
    /\ \E k \in 1..Len(invalid) : invalid[k].idx = i /\ invalid[k].reason # ""
    /\ \E q \in 1..Len(db[InvalidTable(kind)]) :
         LET row == db[InvalidTable(kind)][q]
         IN  /\ (IF kind = "customers" THEN row.id
                 ELSE IF kind = "products" THEN row.sku
                 ELSE row.transaction_id) = NaturalKey(kind, data[i])
             /\ row.error_message # ""

(* C3: once the validation step has completed, every record that failed    *)
(* the schema or an integrity rule has a quarantine entry with a non-empty *)
(* reason, every other record is in the valid output, and no record is in  *)
(* both.                                                                   *)
C3_QuarantineComplete ==
    pc = "write" =>
       /\ \A i \in 1..Len(data) :
            /\ FailsARule(i) => HasQuarantineEntry(i)
            /\ ~FailsARule(i) => i \in ValidIdx
       /\ ValidIdx \cap QuarantinedIdx = {}

DuplicateReasons == {"Duplicate id", "Duplicate sku", "Duplicate transaction_id"}

(* C4: of two schema-valid records of one batch that share a natural key,  *)
(* the first encountered is in the valid output and the other is           *)
(* quarantined with a duplicate-key reason, whatever the other rules say   *)
(* of the first.                                                           *)
C4_DuplicatePrecedence ==
    pc = "write" =>
       \A i, j \in 1..Len(data) :
          (/\ i < j
           /\ data[i].ok /\ data[j].ok
           /\ NaturalKey(kind, data[i]) = NaturalKey(kind, data[j])
           /\ ~SharesEarlierKey(i))
          => /\ i \in ValidIdx
             /\ j \notin ValidIdx
             /\ \E k \in 1..Len(invalid) :
                  invalid[k].idx = j /\ invalid[k].reason \in DuplicateReasons

(* C10: a record that violates the schema or an integrity rule never       *)
(* aborts the batch or the run.                                            *)
C10_RecordFailureNonFatal == err # "record"

(* ---- the files of the running kind and what is persisted for them ---- *)
KindPaths ==
    {FilePath(p[1], p[2], FileName(kind, e)) : p \in Parts, e \in Exts}

InRaw(path) == path \in DOMAIN raw.files
InArchive(path) == path \in DOMAIN archived.files

RejectKey(k, row) ==
    CASE k = "customers" -> row.id
      [] k = "products" -> row.sku
      [] k = "transactions" -> row.transaction_id

HasStatistics(path) ==
    \E i \in 1..Len(db.processing_statistics) :
        LET row == db.processing_statistics[i]
        IN  /\ row.record_date = extract_actual_date(path[1])
            /\ row.record_hour = extract_actual_hour(path[2])
            /\ row.dataset_type = StatisticsType(kind)

(* something derived from the partition of path is persisted *)
HasDerivedState(path) ==
    \/ PartitionRows(db[kind], extract_actual_date(path[1]),
                     extract_actual_hour(path[2])) > 0
    \/ PartitionRows(db[InvalidTable(kind)], extract_actual_date(path[1]),
                     extract_actual_hour(path[2])) > 0
    \/ HasStatistics(path)
    \/ ListDir(processed, path[1], path[2]) # {}

RecordAbsorbed(rec, path) ==
    \/ PersistedCopies(rec, extract_actual_date(path[1]),
                       extract_actual_hour(path[2])) >= 1
    \/ \E q \in 1..Len(db[InvalidTable(kind)]) :
         RejectKey(kind, db[InvalidTable(kind)][q]) = NaturalKey(kind, rec)

FullyAbsorbed(path) ==
    /\ InArchive(path)
    /\ ~InRaw(path)
    /\ HasStatistics(path)
    /\ \A k \in 1..Len(archived.files[path]) :
         RecordAbsorbed(archived.files[path][k], path)

Untouched(path) ==
    /\ InRaw(path)
    /\ ~InArchive(path)
    /\ ~HasDerivedState(path)

(* C8 as stated: between runs (after a run completed, aborted on a store   *)
(* or file-system error, or was killed) every dataset file is fully        *)
(* absorbed (loaded, quarantined, archived) or untouched (in the input     *)
(* tree with no quarantine row, persisted row, processed-output file or    *)
(* statistics row derived from it).                                        *)
C8_PartitionAtomicity ==
    (pc = "idle" /\ err \in {"none", "store", "fs", "killed"}) =>
       \A path \in KindPaths :
          (InRaw(path) \/ InArchive(path)) => (FullyAbsorbed(path) \/ Untouched(path))

(* C8 as amended: between runs a dataset file is in the archive tree or in *)
(* the input tree, never both; an archived file was moved by a pass that   *)
(* had completed the earlier steps of its partition (the partition has a   *)
(* processed-output directory and a statistics row, and every record of    *)
(* the extracted <kind>.json.gz has a persisted row or a quarantine        *)
(* entry); a file still in the input tree may have derived state.          *)
C8_ArchivedImpliesAbsorbed ==
    pc = "idle" =>
       \A path \in KindPaths :
          /\ ~(InRaw(path) /\ InArchive(path))
          /\ InArchive(path) =>
               /\ HasStatistics(path)
               /\ <<path[1], path[2]>> \in processed.dirs
               /\ path[3].ext = GZ =>
                    \A k \in 1..Len(archived.files[path]) :
                       RecordAbsorbed(archived.files[path][k], path)

(* between runs, after a store error: one partition's file is archived and *)
(* another file is still in the input tree with state derived from it      *)
C8_Witness ==
    /\ pc = "idle"
    /\ err = "store"
    /\ \E path \in KindPaths : InArchive(path) /\ archived.files[path] # <<>>
    /\ \E path \in KindPaths : InRaw(path) /\ HasDerivedState(path)

(* C9: the rejects store holds at most one entry per customer id, and at   *)
(* most one entry per (partition, natural key) for products and            *)
(* transactions; the entry carries the reason of the latest rejection of   *)
(* its key.                                                                *)
C9_QuarantineUpsert ==
    /\ \A i, j \in 1..Len(db.invalid_customers) :
         db.invalid_customers[i].id = db.invalid_customers[j].id => i = j
    /\ \A i, j \in 1..Len(db.invalid_products) :
         (/\ db.invalid_products[i].record_date = db.invalid_products[j].record_date
          /\ db.invalid_products[i].record_hour = db.invalid_products[j].record_hour
          /\ db.invalid_products[i].sku = db.invalid_products[j].sku) => i = j
    /\ \A i, j \in 1..Len(db.invalid_transactions) :
         (/\ db.invalid_transactions[i].record_date = db.invalid_transactions[j].record_date
          /\ db.invalid_transactions[i].record_hour = db.invalid_transactions[j].record_hour
          /\ db.invalid_transactions[i].transaction_id
               = db.invalid_transactions[j].transaction_id) => i = j
    /\ pc = "write" =>
         \A k \in 1..Len(invalid) :
            (\A m \in (k + 1)..Len(invalid) :
                NaturalKey(kind, invalid[m].rec) # NaturalKey(kind, invalid[k].rec))
            => \E q \in 1..Len(db[InvalidTable(kind)]) :
                 LET row == db[InvalidTable(kind)][q]
                 IN  /\ RejectKey(kind, row) = NaturalKey(kind, invalid[k].rec)
                     /\ row.error_message = invalid[k].reason

(* ---- erasure ---- *)
JustHandled == Len(erasure'.log) = Len(erasure.log) + 1
NewEntry == erasure'.log[Len(erasure'.log)]

(* C5: when an erasure request for subject S is applied to a processed     *)
(* file, the rewritten file has the same number of records in the same     *)
(* order, a record whose id is S differs from its old self in the email    *)
(* field only, which holds the hash of the request's replacement value,    *)
(* and every other record is unchanged.                                    *)
C5_ErasureFrame ==
    [][(pc = "erase" /\ JustHandled /\ NewEntry.rewritten) =>
         LET old == processed.files[NewEntry.file]
             new == archived'.files[NewEntry.archive]
             S == CurRequest.customer_id
         IN  /\ Len(new) = Len(old)
             /\ \A k \in 1..Len(old) :
                  /\ DOMAIN new[k] = DOMAIN old[k]
                  /\ \A f \in DOMAIN old[k] \ {"email"} : new[k][f] = old[k][f]
                  /\ new[k].email = IF old[k].id = S
                                    THEN Sha256(CurRequest.email)
                                    ELSE old[k].email]_vars

(* a request was applied to a file that holds the subject's record and     *)
(* another customer's record                                               *)
C5_Witness ==
    \E i \in 1..Len(erasure.log) :
        /\ erasure.log[i].rewritten
        /\ data[i].ok
        /\ LET lines == archived.files[erasure.log[i].archive]
           IN  /\ \E k \in 1..Len(lines) :
                     /\ lines[k].id = data[i].customer_id
                     /\ lines[k].email = Sha256(data[i].email)
               /\ \E k \in 1..Len(lines) :
                     /\ lines[k].id # data[i].customer_id
                     /\ lines[k].email = "a@x.com"

(* the partition directory the pipeline's archiver uses *)
PipelineArchivePath(date, hour, name) ==
    FilePath(format_date_for_file_system(date), format_hour_for_file_system(hour), name)

(* C6: after a valid erasure request was applied, the rewritten file is in *)
(* the archive tree under date=YYYY-MM-DD/hour=HH of its partition, the    *)
(* directory the pipeline's archiver uses, and no longer in the            *)
(* processed-output tree.                                                  *)
C6_ErasureArchiveLocation ==
    \A i \in 1..Len(erasure.log) :
        (erasure.log[i].status = "Archived" /\ data[i].ok) =>
           /\ PipelineArchivePath(erasure.log[i].part[1], erasure.log[i].part[2],
                                  erasure.log[i].file[3]) \in DOMAIN archived.files
           /\ erasure.log[i].file \notin DOMAIN processed.files

(* the subject is not persisted, or no partition it is persisted in has a  *)
(* processed customers file (the directory may not exist)                  *)
LookupMiss(req) ==
    /\ req.ok
    /\ \A result \in get_date_and_hour_to_anonymize(db.customers, req.customer_id) :
         {path \in DOMAIN processed.files :
             /\ path[1] = format_date_for_file_system(result[1])
             /\ path[2] = format_hour_for_file_system(result[2])} = {}

(* C7: a valid request that misses at a lookup step is dropped: no file    *)
(* and no store row changes, no error leaves the erasure step and the loop *)
(* goes on with the remaining requests.                                    *)
C7_LookupMissDropped ==
    [][(pc = "erase" /\ LookupMiss(CurRequest) /\ err' # "store") =>
         /\ pc' \in {"erase", "load"}
         /\ JustHandled
         /\ NewEntry.status = "Dropped"
         /\ erasure'.next = erasure.next + 1
         /\ UNCHANGED <<raw, processed, archived, db>>]_vars

(* ---- total-cost rule ---- *)
(* record i passed the schema, the duplicate, the customer and the sku     *)
(* rule, so that the total-cost rule decides                               *)
ReachesTotalCostRule(i) ==
    /\ data[i].ok
    /\ ~SharesEarlierKey(i)
    /\ is_existing_customer(db.customers, data[i].customer_id)
    /\ are_valid_product_skus(db.products, data[i].products)

(* C11: a transaction passes the total-cost check exactly when its        *)
(* declared total equals the sum of price x quantity over its line items,  *)
(* both rounded to two decimals; one whose total differs is quarantined    *)
(* with a total-cost reason.                                               *)
C11_TotalCostRule ==
    (pc = "write" /\ kind = "transactions") =>
       \A i \in 1..Len(data) :
          ReachesTotalCostRule(i) =>
             IF Round2(LineSum(data[i])) = Round2(data[i].total_cost)
             THEN i \in ValidIdx
             ELSE \E k \in 1..Len(invalid) :
                    invalid[k].idx = i /\ invalid[k].reason = "Invalid total_cost"

(* ---- codec ---- *)
(* C12: writing a non-empty record sequence under either suffix and then   *)
(* extracting the written file yields the sequence again: same records,    *)
(* same order, same length.                                                *)
C12_RoundTrip ==
    [][(pc = "codec_written" /\ data # <<>>) =>
          (err' = "none" /\ data' = data)]_vars

(* C13: extract of a path that is not in the file system returns the empty *)
(* sequence and raises nothing.                                            *)
C13_ExtractAbsentPath ==
    [][(pc = "codec_written" /\ CodecPath \notin DOMAIN processed.files) =>
          (err' = "none" /\ data' = <<>>)]_vars

(* ---- order of the partitions ---- *)
ArchivedUnder(q) ==
    \E path \in DOMAIN archived.files : path[1] = q[1] /\ path[2] = q[2]

PendingFiles ==
    {path \in DOMAIN raw.files : StartsWith(path[3].prefix, kind)}

(* C15: the entry point returns normally only when every pending partition  *)
(* of the kind was processed to completion; a run stopped by a store or    *)
(* file-system error does not return normally.                             *)
C15_FailureSurfaces ==
    (pc = "idle" /\ runs > 0 /\ err \in {"none", "store", "fs"}) =>
       /\ main(err) = "returned" => (err = "none" /\ PendingFiles = {})
       /\ err \in {"store", "fs"} => main(err) # "returned"

(* C16: a file-system error while a source file is archived is fatal to    *)
(* that file's archival only: the loaded rows stay, and the run goes on    *)
(* with the other files of the partition and with the later partitions.    *)
C16_ArchiveFailureLocal ==
    [][(pc = "archive" /\ err' = "fs") =>
          /\ db' = db
          /\ pc' \in {"archive", "scan"}
          /\ todo' \in {todo, Tail(todo)}]_vars

(* ---- file / store consistency ---- *)
DistinctValidKeys ==
    \A i, j \in 1..Len(valid) :
        NaturalKey(kind, data[valid[i]]) = NaturalKey(kind, data[valid[j]]) => i = j

(* C17: once the statistics row of a partition is written, every record of *)
(* the partition's processed-output file has a persisted row with its key  *)
(* under that partition, and the record count of the statistics row is the *)
(* number of rows the partition holds in the store.  Stated for batches    *)
(* whose valid output has no repeated key.                                 *)
C17_FileStoreConsistency ==
    (pc = "archive" /\ kind \in Kinds /\ DistinctValidKeys) =>
       LET d == extract_actual_date(CurDate)
           h == extract_actual_hour(CurHour)
           path == FilePath(CurDate, CurHour, DatasetType(kind))
           stats == db.processing_statistics[Len(db.processing_statistics)]
       IN  /\ path \in DOMAIN processed.files =>
                \A k \in 1..Len(processed.files[path]) :
                   \E r \in 1..Len(db[kind]) :
                      /\ RowKey(kind, db[kind][r])
                           = NaturalKey(kind, processed.files[path][k])
                      /\ db[kind][r].record_date = d
                      /\ db[kind][r].record_hour = h
           /\ stats.record_count = PartitionRows(db[kind], d, h)

(* ---- order of the steps of one partition pass ---- *)
CurPath == FilePath(CurDate, CurHour, DatasetType(kind))

AllValidPersisted ==
    \A k \in 1..Len(valid) :
        PersistedCopies(data[valid[k]], extract_actual_date(CurDate),
                        extract_actual_hour(CurHour)) >= 1

AllClassified ==
    \A i \in 1..Len(data) : i \in ValidIdx \/ HasQuarantineEntry(i)

(* C18 as stated: the valid records are inserted into the store before    *)
(* they are re-serialized to the processed-output location, so when the    *)
(* processed-output tree is written every valid record has its row.        *)
C18_LoadBeforeReserialize ==
    [][processed' # processed => AllValidPersisted]_vars

(* C18 as amended: quarantine writes, then re-serialization of the valid   *)
(* records, then their insertion into the store, then the statistics row,  *)
(* then archival: each step finds the work of the earlier ones done.       *)
C18_StepOrder ==
    [][/\ processed' # processed =>
            (AllClassified /\ db' = db /\ archived' = archived)
       /\ db'[kind] # db[kind] =>
            /\ <<CurDate, CurHour>> \in processed.dirs
            /\ valid # <<>> => (/\ CurPath \in DOMAIN processed.files
                                /\ processed.files[CurPath] = ValidRecords)
            /\ AllClassified
            /\ UNCHANGED fsVars
       /\ db'.processing_statistics # db.processing_statistics =>
            /\ AllValidPersisted
            /\ <<CurDate, CurHour>> \in processed.dirs
            /\ UNCHANGED fsVars
       /\ archived' # archived =>
            /\ HasStatistics(<<CurDate, CurHour>>)
            /\ AllValidPersisted
            /\ db' = db]_vars

(* a pass with valid and invalid records has written the processed file   *)
(* and inserted the rows, and the statistics row is still to come          *)
C18_Witness ==
    /\ pc = "stats"
    /\ valid # <<>>
    /\ invalid # <<>>
    /\ CurPath \in DOMAIN processed.files
    /\ AllValidPersisted
    /\ ~HasStatistics(<<CurDate, CurHour>>)

(* ---- transaction load atomicity ---- *)
HasChildren(transaction_id) ==
    /\ \E a \in 1..Len(db.delivery_addresses) :
         db.delivery_addresses[a].transaction_id = transaction_id
    /\ \E q \in 1..Len(db.purchases) :
         db.purchases[q].transaction_id = transaction_id

HasParent(transaction_id) ==
    \E r \in 1..Len(db.transactions) :
        db.transactions[r].transaction_id = transaction_id

(* C19: in every committed state of the store a parent transaction row is  *)
(* present if and only if its delivery address and its purchase rows are   *)
(* present, whatever failure interrupts the load.                          *)
C19_TransactionLoadAtomic ==
    /\ \A r \in 1..Len(db.transactions) :
         HasChildren(db.transactions[r].transaction_id)
    /\ \A a \in 1..Len(db.delivery_addresses) :
         HasParent(db.delivery_addresses[a].transaction_id)
    /\ \A q \in 1..Len(db.purchases) :
         HasParent(db.purchases[q].transaction_id)

(* C20: the processed file is moved into the archive tree by a valid       *)
(* request only after that request rewrote it with the anonymized value;   *)
(* when the rewrite fails the file stays in the processed-output tree.     *)
C20_RewrittenBeforeArchived ==
    [][(pc = "erase" /\ CurRequest.ok /\ JustHandled) =>
          /\ NewEntry.status = "Archived" => NewEntry.rewritten
          /\ ~NewEntry.rewritten => UNCHANGED <<processed, archived>>]_vars

(* ---- persisted rows are insert-only ---- *)
PersistedTables ==
    {"customers", "products", "transactions", "delivery_addresses", "purchases"}

IsPrefix(s, t) == Len(s) <= Len(t) /\ SubSeq(t, 1, Len(s)) = s

(* C21: no step of a partition pipeline deletes a persisted row or changes *)
(* a field of one: every persisted table only grows at its end; a load     *)
(* that finds the key of a valid record already persisted leaves the rows  *)
(* of that key as they are, adds none, and goes on to the statistics step. *)
C21_InsertOnly ==
    [][/\ \A t \in PersistedTables : IsPrefix(db[t], db'[t])
       /\ (pc = "load" /\ db'[kind] = db[kind] /\ err' = "none") =>
             pc' \in {"load", "stats"}
       /\ (pc = "load" /\ pc' = "stats") =>
            \A k \in 1..Len(valid) :
               LET copies == PersistedCopies(data[valid[k]],
                                 extract_actual_date(CurDate),
                                 extract_actual_hour(CurHour))
               IN  copies >= 1 =>
                     PersistedCopies(data[valid[k]], extract_actual_date(CurDate),
                                     extract_actual_hour(CurHour))' = copies]_vars

(* the load step has run over a partition of two valid products whose rows *)
(* an earlier pass had already persisted                                   *)
C21_Witness ==
    /\ pc = "stats"
    /\ kind = "products"
    /\ Len(valid) = 2
    /\ data[valid[1]].sku # data[valid[2]].sku
    /\ HasStatistics(<<CurDate, CurHour>>)
    /\ PartitionRows(db.products, extract_actual_date(CurDate),
                     extract_actual_hour(CurHour)) = 2

(* ---- bulk quarantine of transactions ---- *)
(* quarantining record by record, each entry committed as it is made *)
RECURSIVE PerRecordQuarantine(_, _, _)
PerRecordQuarantine(table, rejected, k) ==
    IF k > Len(rejected) THEN table
    ELSE PerRecordQuarantine(
             Append(table, [record_date |-> extract_actual_date(rejected[k].date),
                            record_hour |-> extract_actual_hour(rejected[k].hour),
                            transaction_id |-> rejected[k].rec.transaction_id,
                            customer_id |-> rejected[k].rec.customer_id,
                            error_message |-> rejected[k].reason]),
             rejected, k + 1)

(* C22: for every batch and every outcome of the validation loop, a loop   *)
(* interrupted by a store error in an existence check included, the        *)
(* quarantine entries committed for the batch are those that quarantining  *)
(* each rejected record at once would have committed.                      *)
C22_BulkEqualsPerRecord ==
    (pc = "validate" /\ kind = "transactions") =>
       \A failAt \in 0..Len(data) :
          LET loop == ValidateLoop(kind, ValidateInit(db.invalid_transactions),
                                   data, 1, CurDate, CurHour, failAt, db)
              st == transform_and_validate(kind, db, data, CurDate, CurHour, failAt)
          IN  (failAt # 0 => loop.status = "store") =>
                 Range(st.table)
                   = Range(PerRecordQuarantine(db.invalid_transactions, loop.invalid, 1))

(* ---- rule order for transactions ---- *)
(* the first rule, in the order schema, duplicate key, customer, skus,     *)
(* total cost, that record i of the batch fails, the rules being those the *)
(* validation evaluates                                                    *)
FirstFailingRule(i) ==
    IF ~data[i].ok THEN "schema"
    ELSE IF SharesEarlierKey(i) THEN "duplicate"
    ELSE IF ~is_existing_customer(db.customers, data[i].customer_id) THEN "customer"
    ELSE IF ~are_valid_product_skus(db.products, data[i].products) THEN "sku"
    ELSE IF ~is_valid_total_cost(data[i].products, data[i].total_cost) THEN "total"
    ELSE "none"

ReasonNaming(rule, rec) ==
    CASE rule = "schema" -> SchemaError
      [] rule = "duplicate" -> "Duplicate transaction_id"
      [] rule = "customer" -> "Invalid customer_id: " \o ToString(rec.customer_id)
      [] rule = "sku" -> "Invalid product skus"
      [] rule = "total" -> "Invalid total_cost"

RunConnection == connect_to_postgres.connection

(* C24: the connection a run uses stays checked out of the pool for the    *)
(* whole run: while the run is under way, and so whenever it issues a      *)
(* store operation, its connection has not been returned to the pool.      *)
C24_ConnectionHeld ==
    (pc # "idle" /\ runs > 0) => RunConnection \in pool.used

(* ---- directory pruning ---- *)
EmptyHourDirs(tree) == {d \in tree.dirs : ListDir(tree, d[1], d[2]) = {}}
EmptyDateDirs(tree) == {date \in tree.dates : \A d \in tree.dirs : d[1] # date}

C26_OnlyValidApplied ==
    [][(pc = "erase" /\ (processed' # processed \/ archived' # archived)) =>
          /\ erasure.next \in Range(valid)
          /\ \A k \in 1..Len(invalid) : invalid[k].idx # erasure.next]_vars

(* C27: when a batch holds valid requests for two different subjects whose *)
(* records are in the processed file of one partition (each subject is     *)
(* persisted in that partition only), then once the first has been applied *)
(* and the loop over the batch has ended, the record of the other subject  *)
(* in the file at its final location carries the anonymized email as well. *)
C27_BothSubjectsErased ==
    (kind = "erasure" /\ pc = "load") =>
       \A i, j \in 1..Len(erasure.log) :
          (/\ i # j
           /\ i \in Range(valid) /\ j \in Range(valid)
           /\ data[i].customer_id # data[j].customer_id
           /\ erasure.log[i].rewritten
           /\ get_date_and_hour_to_anonymize(db.customers, data[j].customer_id)
                 = {erasure.log[i].part})
          => LET lines == archived.files[erasure.log[i].archive]
             IN  \A k \in 1..Len(lines) :
                    lines[k].id = data[j].customer_id =>
                       lines[k].email = Sha256(data[j].email)

(* C28: after a valid erasure request for subject S has been applied, no   *)
(* file of any partition in the processed-output tree holds a record of S  *)
(* with an email that is not anonymized, also when S is persisted in more  *)
(* than one partition.                                                     *)
C28_EveryPartitionErased ==
    (kind = "erasure" /\ pc = "load") =>
       \A i \in 1..Len(erasure.log) :
          (i \in Range(valid) /\ erasure.log[i].rewritten) =>
             \A path \in DOMAIN processed.files :
                \A k \in 1..Len(processed.files[path]) :
                   processed.files[path][k].id = data[i].customer_id =>
                      processed.files[path][k].email = Sha256(data[i].email)

(* ---- erasure and later runs of the customers pipeline ---- *)
(* the partitions and subjects for which an erasure has been applied: the  *)
(* archive tree holds the rewritten file of the partition, with the        *)
(* subject's record anonymized                                             *)
ErasedIn(date, hour, id) ==
    \E path \in DOMAIN archived.files :
        /\ path[1] = PyStr(date) /\ path[2] = PyStr(hour)
        /\ \E k \in 1..Len(archived.files[path]) :
              /\ archived.files[path][k].id = id
              /\ archived.files[path][k].email # "a@x.com"

(* C29: once an erasure request for subject S in partition P has been      *)
(* applied, no later run of the customers pipeline, the retry of P         *)
(* included, brings back a processed-output file of P that holds S's       *)
(* original email.                                                         *)
C29_ErasurePermanent ==
    \A path \in DOMAIN processed.files :
       \A k \in 1..Len(processed.files[path]) :
          ErasedIn(extract_actual_date(path[1]), extract_actual_hour(path[2]),
                   processed.files[path][k].id)
          => processed.files[path][k].email # "a@x.com"

(* ---- progress under retry ---- *)
(* the .json.gz file of the partition holds a record the validation cannot *)
(* classify                                                                *)
HoldsUnvalidatable(path) ==
    LET gz == FilePath(path[1], path[2], DatasetType(kind))
    IN  /\ gz \in DOMAIN raw.files
        /\ \E k \in 1..Len(raw.files[gz]) : ~IsNumeric(raw.files[gz][k].price)

(* C30: when the entry point is invoked again and again and store and      *)
(* file-system errors are transient, every dataset file of the kind in the *)
(* input tree is eventually archived; at the least the files of the        *)
(* partitions without an unvalidatable record are, whatever partition      *)
(* sorted before them holds one.                                           *)
C30_ProgressUnderRetry ==
    /\ <>(PendingFiles = {})
    /\ <>(\A path \in PendingFiles : HoldsUnvalidatable(path))

====
